---------------------------- MODULE Spec2Model ----------------------------
(***************************************************************************)
(* A model of bmpsss (src/src/bmpsss.c, src/src/util.c): a (k, n) secret   *)
(* image sharing tool.  distributeimage() turns every k consecutive       *)
(* pixel bytes of a secret bitmap into one pixel of each of n shadow      *)
(* images (a polynomial over GF(251) evaluated at the shadow number) and  *)
(* hides each shadow in the least significant bits of a carrier bitmap;   *)
(* recoverimage() reads k shadows back and solves for the secret bytes.   *)
(*                                                                         *)
(* C arrays are 0-based and TLA+ sequences 1-based: C index i is          *)
(* position i + 1 of the sequence.                                         *)
(***************************************************************************)
EXTENDS Integers, Sequences, FiniteSets, TLC

(***************************************************************************)
(* Program constants.                                                      *)
(***************************************************************************)
BMP_HEADER_SIZE == 14
DIB_HEADER_SIZE == 40
PALETTE_SIZE == 1024
PIXEL_ARRAY_OFFSET == BMP_HEADER_SIZE + DIB_HEADER_SIZE + PALETTE_SIZE
BITS_PER_PIXEL == 8
PRIME == 251
DEFAULT_SEED == 691

(***************************************************************************)
(* Bounds of the model.                                                    *)
(***************************************************************************)
\* the largest threshold k and the largest number of shadows n
MaxK == 3
MaxN == 3
\* the values an uninitialised width or height is drawn from: 0..MaxIndet
MaxIndet == 2
\* rand() is modelled as returning a value in 0..RandMax
RandMax == 3
\* the longest buffer handed to permutepixels / unpermutepixels
MaxPermLen == 4
\* the largest shadow number of the embedding specification
MaxShadowNumber == 2

Byte == 0..255

(***************************************************************************)
(* util.c                                                                  *)
(***************************************************************************)
\* C's a % b for b > 0: the remainder has the sign of a
CRem(a, b) == IF a >= 0 THEN a % b ELSE -((-a) % b)

mod(a, b) ==
    LET m == CRem(a, b)
    IN  IF m < 0 THEN m + b ELSE m

\* the two bytes fwrite() puts on disk for a uint16_t: least significant
\* first (writebmpheader swaps on a big-endian host, so both hosts agree)
U16ToDisk(v) == <<v % 256, (v \div 256) % 256>>
\* and the value readbmpheader gets back from them
U16FromDisk(b) == b[1] + 256 * b[2]

RECURSIVE Pow(_, _)
Pow(b, e) == IF e = 0 THEN 1 ELSE b * Pow(b, e - 1)

(***************************************************************************)
(* Arithmetic on int.  An int is kept as a number in -2^31 .. 2^31 - 1; a  *)
(* product or a difference is computed on its two halves of 16 bits, so    *)
(* that no intermediate value leaves that range.  inthigh is the signed    *)
(* upper half, intlow the lower half.                                      *)
(***************************************************************************)
HALF == 65536
inthigh(a) == a \div HALF
intlow(a) == a % HALF

\* the int with the given halves, the upper one reduced to 16 bits
intjoin(high, low) ==
    LET h == high % HALF
    IN  (IF h >= HALF \div 2 THEN h - HALF ELSE h) * HALF + low

\* the factor of a product that is smaller in absolute value, and the other
absof(a) == IF a < 0 THEN -a ELSE a
smallfactor(a, b) == IF absof(a) <= absof(b) THEN a ELSE b
bigfactor(a, b) == IF absof(a) <= absof(b) THEN b ELSE a

\* the upper half of a * b before it is reduced to 16 bits; one of the
\* factors is in -32767 .. 32767
producthigh(a, b) ==
    LET s == smallfactor(a, b)
        g == bigfactor(a, b)
    IN  s * inthigh(g) + ((s * intlow(g)) \div HALF)

\* a * b does not fit an int: the behaviour of the program is undefined
muloverflows(a, b) ==
    producthigh(a, b) < -(HALF \div 2) \/ producthigh(a, b) >= HALF \div 2

\* a * b as the two's complement machine computes it
intmul(a, b) ==
    intjoin(producthigh(a, b), (smallfactor(a, b) * intlow(bigfactor(a, b))) % HALF)

\* the upper half of a - b before it is reduced to 16 bits
differencehigh(a, b) ==
    inthigh(a) - inthigh(b) + ((intlow(a) - intlow(b)) \div HALF)

suboverflows(a, b) ==
    differencehigh(a, b) < -(HALF \div 2) \/ differencehigh(a, b) >= HALF \div 2

\* a - b as the two's complement machine computes it
intsub(a, b) == intjoin(differencehigh(a, b), (intlow(a) - intlow(b)) % HALF)

\* value after "value *= x" has run e - 1 times from value = x
RECURSIVE intpow(_, _)
intpow(x, e) == IF e = 0 THEN 1 ELSE intmul(intpow(x, e - 1), x)

(***************************************************************************)
(* The table of modular inverses, modinv[PRIME].                           *)
(***************************************************************************)
modinvtable ==
    << 0, 1, 126, 84, 63, 201, 42, 36, 157, 28, 226, 137, 21, 58, 18, 67, 204,
       192, 14, 185, 113, 12, 194, 131, 136, 241, 29, 93, 9, 26, 159, 81, 102,
       213, 96, 208, 7, 95, 218, 103, 182, 49, 6, 216, 97, 106, 191, 235, 68, 41,
       246, 64, 140, 90, 172, 178, 130, 229, 13, 234, 205, 107, 166, 4, 51, 112,
       232, 15, 48, 211, 104, 99, 129, 196, 173, 164, 109, 163, 177, 197, 91, 31,
       150, 124, 3, 189, 108, 176, 174, 110, 53, 80, 221, 27, 243, 37, 34, 44,
       146, 71, 123, 169, 32, 39, 70, 153, 45, 61, 86, 76, 89, 199, 65, 20, 240,
       227, 132, 118, 117, 135, 228, 195, 179, 100, 83, 249, 2, 168, 151, 72, 56,
       23, 116, 134, 133, 119, 24, 11, 231, 186, 52, 162, 175, 165, 190, 206, 98,
       181, 212, 219, 82, 128, 180, 105, 207, 217, 214, 8, 224, 30, 171, 198, 141,
       77, 75, 143, 62, 248, 127, 101, 220, 160, 54, 74, 88, 142, 87, 78, 55, 122,
       152, 147, 40, 203, 236, 19, 139, 200, 247, 85, 144, 46, 17, 238, 22, 121,
       73, 79, 161, 111, 187, 5, 210, 183, 16, 60, 145, 154, 35, 245, 202, 69,
       148, 33, 156, 244, 43, 155, 38, 149, 170, 92, 225, 242, 158, 222, 10, 115,
       120, 57, 239, 138, 66, 237, 59, 47, 184, 233, 193, 230, 114, 25, 223, 94,
       215, 209, 50, 188, 167, 125, 250 >>

\* modinv read one entry too far
modinvnext(a) == modinvtable[((a + 1) % PRIME) + 1]

\* modinv[a]
modinv(a) == modinvtable[a + 1]


(***************************************************************************)
(* Bitmaps.  A Bitmap is a record of the BMPheader and DIBheader fields,   *)
(* the palette and the pixel buffer.  The 1024 palette bytes are kept as   *)
(* one token: "gray" is what initpalette() writes.  An uninitialised       *)
(* buffer byte (xmalloc'ed memory never written, or memory past the end    *)
(* of a buffer) holds any value; the operators take it as the parameter    *)
(* junk, which the actions choose.                                         *)
(***************************************************************************)
calculatepixelarraysize(width, height) ==
    ((BITS_PER_PIXEL * width + 31) \div 32) * 4 * height

newbitmaphelper(width, height, seed, shadnum, pixelarraysize, junk) ==
    [ id             |-> "BM",
      size           |-> PIXEL_ARRAY_OFFSET + pixelarraysize,
      unused1        |-> seed,
      unused2        |-> shadnum,
      offset         |-> PIXEL_ARRAY_OFFSET,
      dibsize        |-> DIB_HEADER_SIZE,
      width          |-> width,
      height         |-> height,
      nplanes        |-> 1,
      depth          |-> BITS_PER_PIXEL,
      compression    |-> 0,
      pixelarraysize |-> pixelarraysize,
      palette        |-> "gray",
      imgpixels      |-> [i \in 1..pixelarraysize |-> junk] ]

newbitmap(width, height, seed, junk) ==
    newbitmaphelper(width, height, seed, 0,
                    calculatepixelarraysize(width, height), junk)

newshadow(width, height, seed, shadownumber, junk) ==
    newbitmaphelper(width, height, seed, shadownumber, width * height, junk)

bmpimagesize(bp) ==
    IF bp.size > 0 THEN bp.size - bp.offset ELSE bp.pixelarraysize

\* floor(sqrt(x))
ISqrt(x) == CHOOSE y \in 0..x : y * y <= x /\ (y + 1) * (y + 1) > x

\* The loop of findclosestpair: the first y from floor(sqrt(x)) down to 3
\* that divides x, or 0 when the loop ends without one.
RECURSIVE closestdivisor(_, _)
closestdivisor(x, y) ==
    IF y <= 2 THEN 0
    ELSE IF x % y = 0 THEN y
    ELSE closestdivisor(x, y - 1)

\* findclosestpair(x, &width, &height): width and height are what the
\* caller's variables hold before the call; they are left as they are when
\* no y divides x.
findclosestpair(x, width, height) ==
    LET y == closestdivisor(x, ISqrt(x))
    IN  IF y # 0
        THEN [width |-> y, height |-> x \div y, assigned |-> TRUE]
        ELSE [width |-> width, height |-> height, assigned |-> FALSE]

\* truncategrayscale
truncategrayscale(bp) ==
    [bp EXCEPT !.imgpixels =
        [i \in 1..bmpimagesize(bp) |->
            IF bp.imgpixels[i] > 250 THEN 250 ELSE bp.imgpixels[i]]]

(***************************************************************************)
(* Shadow formation.                                                       *)
(***************************************************************************)
\* generatepixel(coeff, degree, value): coeff is the sequence coeff[0] ..
\* coeff[degree].  The C code sums in double precision
\* (ret += coeff[i] * pow(value, i)); the sum is the exact integer as long
\* as it stays below 2^53, which holds for degree <= 5 and value <= 250.
RECURSIVE polysum(_, _, _)
polysum(coeff, i, value) ==
    IF i < 0 THEN 0
    ELSE polysum(coeff, i - 1, value) + coeff[i + 1] * Pow(value, i)

\* generatepixel without the reduction modulo PRIME
generatepixelnomod(coeff, degree, value) ==
    polysum(coeff, degree, value) % 256

generatepixel(coeff, degree, value) ==
    CRem(polysum(coeff, degree, value), PRIME) % 256

\* &bp->imgpixels[j*k], read at 0 .. k-1: a byte past the end of the buffer
\* is junk
coeffat(bp, k, j, junk) ==
    [i \in 1..k |->
        IF j * k + i <= Len(bp.imgpixels) THEN bp.imgpixels[j * k + i]
        ELSE junk]

\* the number of iterations of "for (j = 0; j*k < pixelarraysize; j++)"
blockcount(pixelarraysize, k) == (pixelarraysize + k - 1) \div k

\* formshadows(bp, k, n, seed).  width0 and height0 are the values the
\* uninitialised locals width and height hold.  A write past the end of a
\* shadow's buffer is left out of the buffer (formshadowsoverflows).
formshadows(bp, k, n, seed, width0, height0, junk) ==
    LET pixelarraysize == bmpimagesize(bp)
        dims == findclosestpair(pixelarraysize \div k, width0, height0)
    IN  [i \in 1..n |->
            LET sh == newshadow(dims.width, dims.height, seed, i, junk)
            IN  [sh EXCEPT !.imgpixels =
                    [j \in 1..Len(sh.imgpixels) |->
                        IF j <= blockcount(pixelarraysize, k)
                        THEN generatepixel(coeffat(bp, k, j - 1, junk), k - 1, i)
                        ELSE junk]]]

\* formshadows writes shadows[i]->imgpixels[j] past the buffer's end
formshadowsoverflows(bp, k, width0, height0) ==
    LET dims == findclosestpair(bmpimagesize(bp) \div k, width0, height0)
    IN  blockcount(bmpimagesize(bp), k) > dims.width * dims.height

\* formshadows reads coeff[i] past the end of the secret's pixel buffer
formshadowsoverreads(bp, k) ==
    blockcount(bmpimagesize(bp), k) * k > Len(bp.imgpixels)

\* every byte formshadows hands to generatepixel as a coefficient
coefficients(bp, k, junk) ==
    { coeffat(bp, k, j, junk)[i] :
        j \in 0..(blockcount(bmpimagesize(bp), k) - 1), i \in 1..k }


(***************************************************************************)
(* Hiding a shadow in a carrier and reading it back.                       *)
(***************************************************************************)
RIGHTMOST_BIT_ON(x) == IF x % 2 = 0 THEN x + 1 ELSE x
\* the mask 0xFC in place of 0xFE
RIGHTMOST_BIT_OFF_FC(x) == x - (x % 4)
RIGHTMOST_BIT_OFF(x) == x - (x % 2)

\* the bits taken least significant first: bit b of the byte, as 0x80 or 0
shiftedbytelsbfirst(byte, b) == ((byte \div Pow(2, b)) % 2) * 128

\* the uint8_t byte after b rounds of "byte <<= 1"
shiftedbyte(byte, b) == (byte * Pow(2, b)) % 256

\* the carrier's pixel buffer after the loop of hideshadow: carrier byte
\* j = 8*i + b takes bit 0x80 of the shadow byte i shifted left b times.
\* Only the bytes inside the carrier's buffer are kept (hideshadowoverflows).
hiddenpixels(carrierpixels, shadow) ==
    [j \in 1..Len(carrierpixels) |->
        LET i == (j - 1) \div 8
            b == (j - 1) % 8
        IN  IF i < bmpimagesize(shadow)
            THEN IF shiftedbyte(shadow.imgpixels[i + 1], b) >= 128
                 THEN RIGHTMOST_BIT_ON(carrierpixels[j])
                 ELSE RIGHTMOST_BIT_OFF(carrierpixels[j])
            ELSE carrierpixels[j]]

\* hideshadow(bp, shadow): the carrier as handed to bmptofile
hideshadow(bp, shadow) ==
    [bp EXCEPT !.unused1 = shadow.unused1,
               !.unused2 = shadow.unused2,
               !.imgpixels = hiddenpixels(bp.imgpixels, shadow)]

\* hideshadow writes bp->imgpixels[j] past the end of the carrier's buffer
hideshadowoverflows(bp, shadow) ==
    8 * bmpimagesize(shadow) > Len(bp.imgpixels)

\* xsnprintf(shadowfilename, 20, "shadow%d.bmp", shadow->bmpheader.unused2)
shadowfilename(shadow) == <<"shadow", shadow.unused2, ".bmp">>

\* bmptofile: the file's reserved header fields as they lie on disk, and
\* the rest of the bitmap
bmptofile(bp, filename) ==
    [ name    |-> filename,
      bytes6  |-> U16ToDisk(bp.unused1),
      bytes8  |-> U16ToDisk(bp.unused2),
      bitmap  |-> bp ]

\* bmpfromfile: readbmpheader reads the reserved fields back from the disk
bmpfromfile(file) ==
    [file.bitmap EXCEPT !.unused1 = U16FromDisk(file.bytes6),
                        !.unused2 = U16FromDisk(file.bytes8)]

\* the byte retrieveshadow builds for shadow pixel i: mask 0x80 >> b is set
\* when carrier byte 8*i + b is odd; a carrier byte past the buffer is junk
retrievedbyte(carrierpixels, i, junk) ==
    LET at(j) == IF j <= Len(carrierpixels) THEN carrierpixels[j] ELSE junk
        RECURSIVE bits(_)
        bits(b) == IF b > 7 THEN 0
                   ELSE (IF at(8 * i + b + 1) % 2 = 1 THEN Pow(2, 7 - b) ELSE 0)
                        + bits(b + 1)
    IN  bits(0)

\* retrieveshadow(bp, width, height, k): width and height are the secret's
retrieveshadow(bp, width, height, k, junk) ==
    LET dims == findclosestpair(calculatepixelarraysize(width, height) \div k,
                                width, height)
        shadow == newshadow(dims.width, dims.height, bp.unused1, bp.unused2, junk)
    IN  [shadow EXCEPT !.imgpixels =
            [i \in 1..shadow.pixelarraysize |->
                retrievedbyte(bp.imgpixels, i - 1, junk)]]

\* retrieveshadow reads bp->imgpixels[j] past the end of the carrier's buffer
retrieveshadowoverreads(bp, width, height, k) ==
    LET dims == findclosestpair(calculatepixelarraysize(width, height) \div k,
                                width, height)
    IN  8 * dims.width * dims.height > Len(bp.imgpixels)

(***************************************************************************)
(* Recovery: Gauss-Jordan elimination modulo PRIME.  A matrix is a         *)
(* sequence of k rows of k+1 entries; mat[i][t] of the C code is           *)
(* mat[i + 1][t + 1] here.                                                 *)
(***************************************************************************)
\* one pass of the inner loops of the echelon phase: row i minus a times
\* row i-1, in columns j .. k
elimfactor(mat, i, j) == intmul(mat[i + 1][j + 1], modinv(mat[i][j + 1]))

elimrow(mat, i, j, k) ==
    LET a == elimfactor(mat, i, j)
    IN  [mat EXCEPT ![i + 1] =
            [t \in 1..(k + 1) |->
                IF t - 1 >= j
                THEN mod(intsub(mat[i + 1][t],
                                CRem(intmul(mat[i][t], a), PRIME)), PRIME)
                ELSE mat[i + 1][t]]]

\* a product or a difference of that pass does not fit an int
elimrowoverflows(mat, i, j, k) ==
    \/ muloverflows(mat[i + 1][j + 1], modinv(mat[i][j + 1]))
    \/ \E t \in (j + 1)..(k + 1) :
          \/ muloverflows(mat[i][t], elimfactor(mat, i, j))
          \/ suboverflows(mat[i + 1][t],
                          CRem(intmul(mat[i][t], elimfactor(mat, i, j)), PRIME))

\* for (i = k-1; i > j; i--)
RECURSIVE elimrows(_, _, _, _)
elimrows(mat, i, j, k) ==
    IF i <= j THEN mat ELSE elimrows(elimrow(mat, i, j, k), i - 1, j, k)

RECURSIVE elimrowsoverflow(_, _, _, _)
elimrowsoverflow(mat, i, j, k) ==
    IF i <= j THEN FALSE
    ELSE \/ elimrowoverflows(mat, i, j, k)
         \/ elimrowsoverflow(elimrow(mat, i, j, k), i - 1, j, k)

\* for (j = 0; j < k-1; j++)
RECURSIVE echelon(_, _, _)
echelon(mat, j, k) ==
    IF j >= k - 1 THEN mat ELSE echelon(elimrows(mat, k - 1, j, k), j + 1, k)

RECURSIVE echelonoverflows(_, _, _)
echelonoverflows(mat, j, k) ==
    IF j >= k - 1 THEN FALSE
    ELSE \/ elimrowsoverflow(mat, k - 1, j, k)
         \/ echelonoverflows(elimrows(mat, k - 1, j, k), j + 1, k)

\* one pass of the outer loop of the reduced phase, for row i
reducerow(mat, i, k) ==
    LET inv  == modinv(mat[i + 1][i + 1])
        mik  == CRem(intmul(mat[i + 1][k + 1], inv), PRIME)
        mii  == CRem(intmul(mat[i + 1][i + 1], inv), PRIME)
    IN  [r \in 1..k |->
            IF r - 1 = i
            THEN [mat[r] EXCEPT ![k + 1] = mik, ![i + 1] = mii]
            ELSE IF r - 1 < i
            THEN [mat[r] EXCEPT
                    ![k + 1] = mod(intsub(mat[r][k + 1],
                                          CRem(intmul(mik, mat[r][i + 1]), PRIME)),
                                   PRIME),
                    ![i + 1] = 0]
            ELSE mat[r]]

\* a product or a difference of that pass does not fit an int
reducerowoverflows(mat, i, k) ==
    LET inv  == modinv(mat[i + 1][i + 1])
        mik  == CRem(intmul(mat[i + 1][k + 1], inv), PRIME)
    IN  \/ muloverflows(mat[i + 1][k + 1], inv)
        \/ muloverflows(mat[i + 1][i + 1], inv)
        \/ \E r \in 1..i :
              \/ muloverflows(mik, mat[r][i + 1])
              \/ suboverflows(mat[r][k + 1],
                              CRem(intmul(mik, mat[r][i + 1]), PRIME))

\* for (i = k-1; i > 0; i--)
RECURSIVE reduced(_, _, _)
reduced(mat, i, k) ==
    IF i <= 0 THEN mat ELSE reduced(reducerow(mat, i, k), i - 1, k)

RECURSIVE reducedoverflows(_, _, _)
reducedoverflows(mat, i, k) ==
    IF i <= 0 THEN FALSE
    ELSE \/ reducerowoverflows(mat, i, k)
         \/ reducedoverflows(reducerow(mat, i, k), i - 1, k)

findcoefficients(mat, k) == reduced(echelon(mat, 0, k), k - 1, k)

findcoefficientsoverflows(mat, k) ==
    \/ echelonoverflows(mat, 0, k)
    \/ reducedoverflows(echelon(mat, 0, k), k - 1, k)

\* the row revealsecret sets up for shadow sp and pixel i:
\* 1, x, x^2, .., x^(k-1), sp->imgpixels[i], with x = sp->bmpheader.unused2
matrixrow(sp, i, k) ==
    [t \in 1..(k + 1) |->
        IF t = k + 1 THEN sp.imgpixels[i + 1] ELSE intpow(sp.unused2, t - 1)]

\* "value *= sp->bmpheader.unused2" runs k - 1 times and reaches x^k: one
\* of these products does not fit an int
matrixrowoverflows(x, k) ==
    \E e \in 2..k : muloverflows(intpow(x, e - 1), x)

\* the k bytes revealsecret gets for pixel i of the shadows
revealedblock(shadows, i, k) ==
    LET mat == findcoefficients([j \in 1..k |-> matrixrow(shadows[j], i, k)], k)
    IN  [j \in 1..k |-> mat[j][k + 1] % 256]

\* revealsecret(shadows, width, height, k).  Only the bytes inside the new
\* bitmap's buffer are kept (revealsecretoverflows); the bytes it never
\* writes stay junk.
revealsecret(shadows, width, height, k, junk) ==
    LET pixels == shadows[1].pixelarraysize
        bmp == newbitmap(width, height, shadows[1].unused1, junk)
    IN  [bmp EXCEPT !.imgpixels =
            [j \in 1..Len(bmp.imgpixels) |->
                IF (j - 1) \div k < pixels
                THEN revealedblock(shadows, (j - 1) \div k, k)[((j - 1) % k) + 1]
                ELSE junk]]

\* revealsecret writes bmp->imgpixels[j] past the end of its buffer
revealsecretoverflows(shadows, width, height, k) ==
    shadows[1].pixelarraysize * k > calculatepixelarraysize(width, height)

\* revealsecret reads sp->imgpixels[i] past the end of a shadow's buffer
revealsecretoverreads(shadows, k) ==
    \E j \in 1..k : shadows[1].pixelarraysize > Len(shadows[j].imgpixels)

(***************************************************************************)
(* The pixel permutation.  srand(seed) starts a sequence of rand() values  *)
(* that depends on the seed alone: stream[t] is the t-th value rand()      *)
(* returns after srand(seed), a number in 0..RandMax.                      *)
(***************************************************************************)
\* randint(max) for the rand() value r
randint(max, r) == (r * (max + 1)) \div (RandMax + 1)

\* a swap that loses *s: it stores *t in *s and leaves *t as it is
swaponeway(p, j, i) == [p EXCEPT ![j + 1] = p[i + 1]]

\* swap(&p[j], &p[i])
swap(p, j, i) == [p EXCEPT ![j + 1] = p[i + 1], ![i + 1] = p[j + 1]]

\* for (i = imgsize - 1; i > 1; i--) { j = randint(i); swap(&p[j], &p[i]); }
\* t is the number of rand() calls made so far
RECURSIVE permuteloop(_, _, _, _)
permuteloop(p, i, t, stream) ==
    IF i <= 1 THEN p
    ELSE permuteloop(swap(p, randint(i, stream[t + 1]), i), i - 1, t + 1, stream)

permutepixels(p, stream) == permuteloop(p, Len(p) - 1, 0, stream)

\* permseq[i] = randint(i) for i = imgsize - 1 down to 1: the t-th call of
\* rand() is made for i = imgsize - t
permseq(imgsize, stream) ==
    [i \in 1..(imgsize - 1) |-> randint(i, stream[imgsize - i])]

\* for (i = 1; i < imgsize - 1; i++) { j = permseq[i]; swap(&p[j], &p[i]); }
RECURSIVE unpermuteloop(_, _, _)
unpermuteloop(p, i, seq) ==
    IF i >= Len(p) - 1 THEN p
    ELSE unpermuteloop(swap(p, seq[i], i), i + 1, seq)

unpermutepixels(p, stream) == unpermuteloop(p, 1, permseq(Len(p), stream))


(***************************************************************************)
(* State.                                                                  *)
(***************************************************************************)
VARIABLES
    \* a run of distributeimage followed by recoverimage
    pc,         \* where the run is
    k, n, seed, \* the -k, -n and -s arguments
    heapfill,   \* the value of the bytes of memory the run never wrote
    secret,     \* the secret image file, as a Bitmap
    dir,        \* the carrier files of --dir, in readdir order
    bmp,        \* distributeimage's bmp: the secret in memory
    shadows,    \* what formshadows returned
    coeffs,     \* the bytes formshadows handed to generatepixel
    written,    \* the files hideshadow has written, oldest first
    retrieved,  \* recoverimage's shadows
    recovered,  \* the bitmap revealsecret returned
    faults,     \* the out-of-bounds accesses made so far
    \* a lookup in modinv
    qa, qinv,
    \* permutepixels and unpermutepixels on one buffer
    ppc, original, buffer, stream,
    \* hideshadow and retrieveshadow on one carrier
    spc, carrier, shadow, hidden, readback,
    \* the shadow pixels of two blocks of secret bytes
    cpc, ck, cn, blockA, blockB, viewA, viewB,
    \* main: the command line and what main makes of it
    mpc,        \* where main is, or how it ended
    margs,      \* the flags given and the numbers that follow them
    mfiles,     \* the number of regular files in --dir
    mcall,      \* the arguments main has parsed and passes on
    \* bmpfromfile on one file
    lpc,        \* where the load is, or how it ended
    lrole,      \* "secret" for the --secret file, "carrier" for one of --dir
    lfile,      \* the file: its header fields, its pixels and its length
    lbitmap,    \* the Bitmap bmpfromfile returned
    lk,         \* the -k argument the carriers are checked against
    \* findcoefficients on the matrix of one block
    vpc,        \* where the solver is
    vk,         \* the number of shadows
    vfiles,     \* the shadow numbers of the files of --dir, in readdir order
    vxs,        \* the shadow numbers of the k files selected
    vcoef,      \* the k secret bytes of the block
    vout,       \* the bytes revealsecret writes for the block
    \* newbitmap on one width and height
    zpc,        \* where the call is, or how it ended
    zwidth,     \* its width argument
    zheight,    \* its height argument
    zbitmap,    \* the header fields of the Bitmap it returned
    zalloc,     \* the number of bytes it asked xmalloc for as pixel buffer
    \* findclosestpair on one x
    fpc,        \* where the call is
    fx,         \* its argument x
    fin,        \* what the caller's width and height hold before the call
    fpair,      \* what they hold after it
    \* recoverimage on k carriers of one size
    rpc,        \* where recoverimage is, or how it ended
    rargs,      \* the width, height and k given on the command line
    rfiles,     \* the k files of --dir
    rshadows,   \* what retrieveshadow returned for them
    rrecovered, \* the bitmap revealsecret returned
    rfaults     \* the out-of-bounds accesses made so far

runvars   == <<pc, k, n, seed, heapfill, secret, dir, bmp, shadows, coeffs,
               written, retrieved, recovered, faults>>
fieldvars == <<qa, qinv>>
permvars  == <<ppc, original, buffer, stream>>
stegovars == <<spc, carrier, shadow, hidden, readback>>
blockvars == <<cpc, ck, cn, blockA, blockB, viewA, viewB>>
mainvars  == <<mpc, margs, mfiles, mcall>>
loadvars  == <<lpc, lrole, lfile, lbitmap, lk>>
solvevars == <<vpc, vk, vfiles, vxs, vcoef, vout>>
sizevars  == <<zpc, zwidth, zheight, zbitmap, zalloc>>
pairvars  == <<fpc, fx, fin, fpair>>
recovervars == <<rpc, rargs, rfiles, rshadows, rrecovered, rfaults>>
latervars == <<mainvars, loadvars, solvevars, sizevars, pairvars, recovervars>>
vars == <<runvars, fieldvars, permvars, stegovars, blockvars, latervars>>

\* the parts of the state a specification does not use
NoRun ==
    /\ pc = "idle" /\ k = 0 /\ n = 0 /\ seed = 0 /\ heapfill = 0
    /\ secret = <<>> /\ dir = <<>> /\ bmp = <<>> /\ shadows = <<>>
    /\ coeffs = {} /\ written = <<>> /\ retrieved = <<>> /\ recovered = <<>>
    /\ faults = {}
NoField == qa = 0 /\ qinv = 0
NoPerm  == ppc = "idle" /\ original = <<>> /\ buffer = <<>> /\ stream = <<>>
NoStego == spc = "idle" /\ carrier = <<>> /\ shadow = <<>> /\ hidden = <<>>
           /\ readback = <<>>
NoBlock == cpc = "idle" /\ ck = 0 /\ cn = 0 /\ blockA = <<>> /\ blockB = <<>>
           /\ viewA = <<>> /\ viewB = <<>>

NoMain  == mpc = "idle" /\ margs = <<>> /\ mfiles = 0 /\ mcall = <<>>
NoLoad  == lpc = "idle" /\ lrole = "" /\ lfile = <<>> /\ lbitmap = <<>>
           /\ lk = 0
NoSolve == vpc = "idle" /\ vk = 0 /\ vfiles = <<>> /\ vxs = <<>>
           /\ vcoef = <<>> /\ vout = <<>>
NoSize  == zpc = "idle" /\ zwidth = 0 /\ zheight = 0 /\ zbitmap = <<>>
           /\ zalloc = 0
NoPair  == fpc = "idle" /\ fx = 0 /\ fin = <<>> /\ fpair = <<>>
NoRecover == rpc = "idle" /\ rargs = <<>> /\ rfiles = <<>> /\ rshadows = <<>>
             /\ rrecovered = <<>> /\ rfaults = {}
NoLater == NoMain /\ NoLoad /\ NoSolve /\ NoSize /\ NoPair /\ NoRecover

\* the state of the specifications of a run, the table, the permutation,
\* the embedding and the blocks
firstvars == <<runvars, fieldvars, permvars, stegovars, blockvars>>
NoFirst == NoRun /\ NoField /\ NoPerm /\ NoStego /\ NoBlock

\* the values heapfill is drawn from
JunkBytes == {0, 255}

(***************************************************************************)
(* SpecField: lookups in the table of inverses.                            *)
(***************************************************************************)
InitField ==
    /\ qa = 0 /\ qinv = modinv(0)
    /\ NoRun /\ NoPerm /\ NoStego /\ NoBlock /\ NoLater

Lookup ==
    /\ \E a \in 0..(PRIME - 1) : qa' = a /\ qinv' = modinv(a)
    /\ UNCHANGED <<runvars, permvars, stegovars, blockvars, latervars>>

NextField == Lookup

SpecField == InitField /\ [][NextField]_vars

(***************************************************************************)
(* SpecPerm: permutepixels, then unpermutepixels with the same seed.  The  *)
(* buffer holds 0, 1, .., N-1, so that every move of a byte shows.         *)
(***************************************************************************)
InitPerm ==
    /\ ppc = "fresh"
    /\ \E len \in 1..MaxPermLen :
          /\ original = [i \in 1..len |-> i - 1]
          /\ stream \in [1..(len - 1) -> 0..RandMax]
    /\ buffer = original
    /\ NoRun /\ NoField /\ NoStego /\ NoBlock /\ NoLater

Permute ==
    /\ ppc = "fresh"
    /\ buffer' = permutepixels(buffer, stream)
    /\ ppc' = "permuted"
    /\ UNCHANGED <<original, stream, runvars, fieldvars, stegovars, blockvars, latervars>>

Unpermute ==
    /\ ppc = "permuted"
    /\ buffer' = unpermutepixels(buffer, stream)
    /\ ppc' = "unpermuted"
    /\ UNCHANGED <<original, stream, runvars, fieldvars, stegovars, blockvars, latervars>>

NextPerm == Permute \/ Unpermute

SpecPerm == InitPerm /\ [][NextPerm]_vars


(***************************************************************************)
(* SpecStego: hideshadow of one shadow into one carrier, then              *)
(* retrieveshadow from the file written.  The carrier has room for the     *)
(* shadow (8 bytes for each of its bytes).                                 *)
(***************************************************************************)
\* width and height of the shadows
ShadowDims == {<<1, 1>>, <<1, 2>>, <<3, 4>>}

\* the pixel buffers of a shadow of len bytes: every byte value for one
\* byte, a few patterns for more
ShadowPixels(len) ==
    IF len = 1 THEN {<<b>> : b \in Byte}
    ELSE { [i \in 1..len |-> (base + step * (i - 1)) % 256] :
             base \in {0, 180, 255}, step \in {0, 1, 75} }

\* the pixel buffers of a carrier of len bytes
CarrierPixels(len) ==
    { [i \in 1..len |-> 0], [i \in 1..len |-> 255],
      [i \in 1..len |-> (170 + 3 * i) % 256] }

\* width, height and k of the secrets whose shadows are retrieved
SecretDims == {<<4, 1>>, <<1, 1>>, <<24, 1>>, <<8, 3>>}

InitStego ==
    /\ spc = "fresh"
    /\ \E d \in ShadowDims, key \in {DEFAULT_SEED, 65535},
          num \in 1..MaxShadowNumber :
          \E px \in ShadowPixels(d[1] * d[2]) :
             shadow = [newshadow(d[1], d[2], key, num, 0)
                         EXCEPT !.imgpixels = px]
    /\ \E extra \in {-4, 0, 4} :
          LET len == 8 * Len(shadow.imgpixels) + extra
          IN  \E px \in CarrierPixels(len) :
                 carrier = [newbitmaphelper(len, 1, 0, 0, len, 0)
                              EXCEPT !.imgpixels = px]
    /\ hidden = <<>> /\ readback = <<>>
    /\ NoRun /\ NoField /\ NoPerm /\ NoBlock /\ NoLater

\* hideshadow(carrier, shadow); when it writes past the carrier's buffer
\* the run goes on or aborts
Hide ==
    /\ spc = "fresh"
    /\ \/ /\ hidden' = bmptofile(hideshadow(carrier, shadow), shadowfilename(shadow))
          /\ spc' = "hidden"
       \/ /\ hideshadowoverflows(carrier, shadow)
          /\ hidden' = hidden
          /\ spc' = "aborted"
    /\ UNCHANGED <<carrier, shadow, readback,
                   runvars, fieldvars, permvars, blockvars, latervars>>

\* retrieveshadow with the width, height and k of a secret whose shadows
\* have as many bytes as the hidden one
Retrieve ==
    /\ spc = "hidden"
    /\ \E d \in SecretDims, kk \in 2..MaxK, junk \in JunkBytes :
          /\ calculatepixelarraysize(d[1], d[2]) \div kk = bmpimagesize(shadow)
          /\ readback' = retrieveshadow(bmpfromfile(hidden), d[1], d[2], kk, junk)
    /\ spc' = "retrieved"
    /\ UNCHANGED <<carrier, shadow, hidden,
                   runvars, fieldvars, permvars, blockvars, latervars>>

NextStego == Hide \/ Retrieve

SpecStego == InitStego /\ [][NextStego]_vars

(***************************************************************************)
(* SpecBlock: the pixels that the n shadows get for one block of k secret  *)
(* bytes (one pass of the outer loop of formshadows), for two blocks.      *)
(***************************************************************************)
\* the n shadow pixels of a block: generatepixel(coeff, k-1, i+1)
shadowpixels(block, kk, nn) ==
    [s \in 1..nn |-> generatepixel(block, kk - 1, s)]

InitBlock ==
    /\ cpc = "fresh"
    /\ ck \in 2..MaxK
    /\ cn \in ck..MaxN
    /\ blockA \in [1..ck -> {0, 10, 250}]
    /\ blockB \in [1..ck -> {0, 10}]
    /\ viewA = <<>> /\ viewB = <<>>
    /\ NoRun /\ NoField /\ NoPerm /\ NoStego /\ NoLater

FormBlocks ==
    /\ cpc = "fresh"
    /\ viewA' = shadowpixels(blockA, ck, cn)
    /\ viewB' = shadowpixels(blockB, ck, cn)
    /\ cpc' = "formed"
    /\ UNCHANGED <<ck, cn, blockA, blockB,
                   runvars, fieldvars, permvars, stegovars, latervars>>

NextBlock == FormBlocks

SpecBlock == InitBlock /\ [][NextBlock]_vars


(***************************************************************************)
(* Spec: one run of distributeimage(dir, imgpath, k, n, seed) followed by  *)
(* one run of recoverimage on the files it wrote, with the secret's width  *)
(* and height and the same k.  main has checked 2 <= k <= n.               *)
(***************************************************************************)
\* isbmp
isbmp(file) == file.bitmap.id = "BM"

\* kdivisiblesize: bmpfilewidth(fp) * bmpfileheight(fp) is a multiple of k
kdivisiblesize(file, kk) ==
    LET pixels == file.bitmap.width * file.bitmap.height
        aux == pixels \div kk
    IN  pixels = aux * kk

\* isvalidbmpsize
isvalidbmpsize(file, kk, secretsize) ==
    LET shadowsize == (secretsize * 8) \div kk
        imgsize == file.bitmap.width * file.bitmap.height
    IN  imgsize >= shadowsize

\* isvalidbmp: its last parameter is ignored
isvalidbmp(file, kk) == isbmp(file) /\ kdivisiblesize(file, kk)

\* isvalidshadow
isvalidshadow(file, kk, secretsize) ==
    /\ U16FromDisk(file.bytes8) # 0
    /\ isbmp(file)
    /\ isvalidbmpsize(file, kk, secretsize)

\* the positions of the first nn files that are valid, in order, valid[i]
\* telling whether file i is; shorter than nn when there are fewer
\* (getvalidfilenames then dies)
RECURSIVE firstvalid(_, _, _)
firstvalid(valid, nn, from) ==
    IF nn = 0 \/ from > Len(valid) THEN <<>>
    ELSE IF valid[from]
         THEN <<from>> \o firstvalid(valid, nn - 1, from + 1)
         ELSE firstvalid(valid, nn, from + 1)

\* getbmpfilenames(dir, k, n, size)
getbmpfilenames(files, kk, nn) ==
    firstvalid([i \in 1..Len(files) |-> isvalidbmp(files[i], kk)], nn, 1)

\* getshadowfilenames(dir, k, size)
getshadowfilenames(files, kk, size) ==
    firstvalid([i \in 1..Len(files) |-> isvalidshadow(files[i], kk, size)], kk, 1)

\* the orders in which readdir may list the files
Orders(files) ==
    { o \in [1..Len(files) -> 1..Len(files)] :
        \A i, j \in 1..Len(files) : i # j => o[i] # o[j] }

\* the pixel buffers of the secrets: byte i is base + step * i modulo 256
SecretPatterns == {<<10, 10>>, <<200, 0>>, <<249, 1>>}

\* width and height of the secrets and of the carriers
RunSecretDims == {<<4, 1>>, <<24, 1>>}
CarrierDims == {<<96, 1>>, <<16, 1>>}

Init ==
    /\ pc = "start"
    /\ k \in 2..MaxK
    /\ n \in k..MaxN
    /\ seed \in {DEFAULT_SEED, 65535}
    /\ heapfill \in JunkBytes
    /\ \E d \in RunSecretDims, pat \in SecretPatterns :
          LET b == newbitmap(d[1], d[2], 0, 0)
          IN  secret = bmptofile(
                  [b EXCEPT !.imgpixels =
                      [i \in 1..Len(b.imgpixels) |->
                          (pat[1] + pat[2] * (i - 1)) % 256]],
                  "secret.bmp")
    /\ \E d \in CarrierDims :
          dir = [c \in 1..n |->
                   LET b == newbitmap(d[1], d[2], 0, 0)
                   IN  bmptofile(
                         [b EXCEPT !.imgpixels =
                             [i \in 1..Len(b.imgpixels) |-> (170 + c * i) % 256]],
                         <<"carrier", c, ".bmp">>)]
    /\ bmp = <<>> /\ shadows = <<>> /\ coeffs = {} /\ written = <<>>
    /\ retrieved = <<>> /\ recovered = <<>> /\ faults = {}
    /\ NoField /\ NoPerm /\ NoStego /\ NoBlock /\ NoLater

\* distributeimage: bmpfromfile(imgpath) and getbmpfilenames, which dies
\* when dir holds fewer than n valid carriers
Load ==
    /\ pc = "start"
    /\ bmp' = bmpfromfile(secret)
    /\ pc' = IF Len(getbmpfilenames(dir, k, n)) < n THEN "died" ELSE "loaded"
    /\ UNCHANGED <<k, n, seed, heapfill, secret, dir, shadows, coeffs, written,
                   retrieved, recovered, faults,
                   fieldvars, permvars, stegovars, blockvars, latervars>>

\* distributeimage: truncategrayscale(bmp)
Truncate ==
    /\ pc = "loaded"
    /\ bmp' = truncategrayscale(bmp)
    /\ pc' = "truncated"
    /\ UNCHANGED <<k, n, seed, heapfill, secret, dir, shadows, coeffs, written,
                   retrieved, recovered, faults,
                   fieldvars, permvars, stegovars, blockvars, latervars>>

\* the bytes formshadows writes past the end of the buffer of shadow i
overflowbytes(bp, kk, i, width0, height0, junk) ==
    LET dims == findclosestpair(bmpimagesize(bp) \div kk, width0, height0)
    IN  { generatepixel(coeffat(bp, kk, j - 1, junk), kk - 1, i) :
            j \in (dims.width * dims.height + 1)..blockcount(bmpimagesize(bp), kk) }

\* the shadows after a byte px written past the buffer of shadow i - 1 has
\* landed on the low byte of bmpheader.unused1 of shadow i.  newshadow
\* allocates header and buffer of one shadow after those of the one before,
\* so a shadow's buffer is followed by the next shadow's Bitmap.
clobbered(sh, i, px) ==
    [sh EXCEPT ![i].unused1 = (@ - (@ % 256)) + px]

\* distributeimage: shadows = formshadows(bmp, k, n, seed).  The locals
\* width and height of formshadows are not initialised: they hold any
\* value when findclosestpair does not assign them.  When formshadows
\* writes past the shadows' buffers the run aborts (the allocator finds its
\* bookkeeping overwritten), or goes on with the headers of the shadows
\* intact, or goes on with a header overwritten.
FormShadows ==
    /\ pc = "truncated"
    /\ \E width0, height0 \in 0..MaxIndet :
          LET sh == formshadows(bmp, k, n, seed, width0, height0, heapfill)
          IN  /\ faults' = faults
                    \cup (IF formshadowsoverflows(bmp, k, width0, height0)
                          THEN {"formshadows writes past a shadow"} ELSE {})
                    \cup (IF formshadowsoverreads(bmp, k)
                          THEN {"formshadows reads past the secret"} ELSE {})
              /\ \/ /\ shadows' = sh
                    /\ pc' = "formed"
                 \/ /\ formshadowsoverflows(bmp, k, width0, height0)
                    /\ shadows' = sh
                    /\ pc' = "aborted"
                 \/ /\ formshadowsoverflows(bmp, k, width0, height0)
                    /\ \E i \in 2..n :
                       \E px \in overflowbytes(bmp, k, i - 1, width0, height0, heapfill) :
                          shadows' = clobbered(sh, i, px)
                    /\ pc' = "formed"
    /\ coeffs' = coefficients(bmp, k, heapfill)
    /\ UNCHANGED <<k, n, seed, heapfill, secret, dir, bmp, written,
                   retrieved, recovered,
                   fieldvars, permvars, stegovars, blockvars, latervars>>

\* distributeimage: one pass of the loop over the shadows,
\* bmp = bmpfromfile(filepaths[i]); hideshadow(bmp, shadows[i]).  When
\* hideshadow writes past the carrier's buffer the run goes on, or aborts
\* before or after bmptofile has written the file.
HideShadow ==
    /\ pc = "formed"
    /\ LET i == Len(written) + 1
           bp == bmpfromfile(dir[getbmpfilenames(dir, k, n)[i]])
           file == bmptofile(hideshadow(bp, shadows[i]), shadowfilename(shadows[i]))
       IN  /\ faults' = faults
                 \cup (IF hideshadowoverflows(bp, shadows[i])
                       THEN {"hideshadow writes past the carrier"} ELSE {})
           /\ \/ /\ written' = Append(written, file)
                 /\ pc' = IF i = n THEN "distributed" ELSE "formed"
              \/ /\ hideshadowoverflows(bp, shadows[i])
                 /\ written' \in {written, Append(written, file)}
                 /\ pc' = "aborted"
    /\ UNCHANGED <<k, n, seed, heapfill, secret, dir, bmp, shadows, coeffs,
                   retrieved, recovered,
                   fieldvars, permvars, stegovars, blockvars, latervars>>

\* recoverimage(dir, filename, width, height, k) on the directory of the
\* files written: getshadowfilenames, which dies when fewer than k files
\* are valid shadows, then retrieveshadow for each of the k files
RetrieveShadows ==
    /\ pc = "distributed"
    /\ \E o \in Orders(written) :
          LET listing == [i \in 1..Len(written) |-> written[o[i]]]
              width == bmp.width
              height == bmp.height
              filepaths == getshadowfilenames(listing, k, width * height)
          IN  IF Len(filepaths) < k
              THEN /\ pc' = "died"
                   /\ UNCHANGED <<retrieved, faults>>
              ELSE /\ pc' = "retrieved"
                   /\ retrieved' =
                         [i \in 1..k |->
                            retrieveshadow(bmpfromfile(listing[filepaths[i]]),
                                           width, height, k, heapfill)]
                   /\ faults' = faults
                         \cup (IF \E i \in 1..k :
                                    retrieveshadowoverreads(
                                        bmpfromfile(listing[filepaths[i]]),
                                        width, height, k)
                               THEN {"retrieveshadow reads past the carrier"}
                               ELSE {})
    /\ UNCHANGED <<k, n, seed, heapfill, secret, dir, bmp, shadows, coeffs,
                   written, recovered,
                   fieldvars, permvars, stegovars, blockvars, latervars>>

\* recoverimage: bmp = revealsecret(shadows, width, height, k), which
\* bmptofile then writes.  When revealsecret writes past the new bitmap's
\* buffer the run goes on or aborts.
RevealSecret ==
    /\ pc = "retrieved"
    /\ faults' = faults
          \cup (IF revealsecretoverflows(retrieved, bmp.width, bmp.height, k)
                THEN {"revealsecret writes past the secret"} ELSE {})
    /\ \/ /\ recovered' = revealsecret(retrieved, bmp.width, bmp.height, k, heapfill)
          /\ pc' = "recovered"
       \/ /\ revealsecretoverflows(retrieved, bmp.width, bmp.height, k)
          /\ recovered' = recovered
          /\ pc' = "aborted"
    /\ UNCHANGED <<k, n, seed, heapfill, secret, dir, bmp, shadows, coeffs,
                   written, retrieved,
                   fieldvars, permvars, stegovars, blockvars, latervars>>

Next ==
    \/ Load
    \/ Truncate
    \/ FormShadows
    \/ HideShadow
    \/ RetrieveShadows
    \/ RevealSecret

Spec == Init /\ [][Next]_vars

(***************************************************************************)
(* SpecMain: main on one command line.  A flag is given or not; -k, -n, -w *)
(* and -h are followed by a decimal number that xstrtol has accepted (it   *)
(* fits an int).                                                           *)
(***************************************************************************)
UINT16_MAX == 65535

\* the numbers that follow -k and -n, the numbers that follow -w and -h,
\* and the numbers of regular files in --dir
CountArgs == {-65534, 0, 1, 2, 3, 250, 251, 65536}
WidthArgs == {0, 4}
HeightArgs == {-1, 0, 1}
FileCounts == {0, 2, 251}

\* the conversion of a long to uint16_t in "k = l", "n = l" and of the int
\* countfiles returns in "n = countfiles(dir)"
ToUint16(l) == l % (UINT16_MAX + 1)

InitMain ==
    /\ mpc = "start"
    /\ margs \in [ dflag : BOOLEAN, rflag : BOOLEAN, secretflag : BOOLEAN,
                   kflag : BOOLEAN, nflag : BOOLEAN,
                   wflag : BOOLEAN, hflag : BOOLEAN,
                   k : CountArgs, n : CountArgs,
                   width : WidthArgs, height : HeightArgs ]
    \* the number after a flag that is not given is not there
    /\ ~margs.kflag => margs.k = 0
    /\ ~margs.nflag => margs.n = 0
    /\ ~margs.wflag => margs.width = 0
    /\ ~margs.hflag => margs.height = 0
    /\ mfiles \in FileCounts
    /\ mcall = <<>>
    /\ NoFirst /\ NoLoad /\ NoSolve /\ NoSize /\ NoPair /\ NoRecover

\* the loop over argv: k, n, width and height start as 0 and are assigned
\* where the flag is given; a number above UINT16_MAX after -k or -n is
\* fatal
ParseArgs ==
    /\ mpc = "start"
    /\ IF (margs.kflag /\ margs.k > UINT16_MAX)
          \/ (margs.nflag /\ margs.n > UINT16_MAX)
       THEN /\ mpc' = "died: number too large"
            /\ mcall' = mcall
       ELSE /\ mpc' = "parsed"
            /\ mcall' = [ fn |-> "none",
                          k |-> IF margs.kflag THEN ToUint16(margs.k) ELSE 0,
                          n |-> IF margs.nflag THEN ToUint16(margs.n) ELSE 0,
                          width |-> IF margs.wflag THEN margs.width ELSE 0,
                          height |-> IF margs.hflag THEN margs.height ELSE 0 ]
    /\ UNCHANGED <<margs, mfiles, firstvars,
                   loadvars, solvevars, sizevars, pairvars, recovervars>>

\* the checks of main after the loop, in their order, and the call
Validate ==
    /\ mpc = "parsed"
    /\ LET nn == IF margs.nflag THEN mcall.n ELSE ToUint16(mfiles)
       IN  IF ~(margs.dflag \/ margs.rflag) \/ ~margs.secretflag \/ ~margs.kflag
           THEN mpc' = "died: usage" /\ mcall' = mcall
           ELSE IF (margs.rflag /\ ~(margs.wflag /\ margs.hflag))
                   \/ mcall.width = 0 \/ mcall.height = 0
           THEN mpc' = "died: width and height" /\ mcall' = mcall
           ELSE IF mcall.k > nn \/ mcall.k < 2 \/ nn < 2
           THEN mpc' = "died: k and n" /\ mcall' = [mcall EXCEPT !.n = nn]
           ELSE IF margs.dflag /\ margs.rflag
           THEN mpc' = "died: -d and -r" /\ mcall' = [mcall EXCEPT !.n = nn]
           ELSE /\ mpc' = "called"
                /\ mcall' = [mcall EXCEPT
                               !.n = nn,
                               !.fn = IF margs.dflag THEN "distributeimage"
                                      ELSE "recoverimage"]
    /\ UNCHANGED <<margs, mfiles, firstvars,
                   loadvars, solvevars, sizevars, pairvars, recovervars>>

NextMain == ParseArgs \/ Validate

SpecMain == InitMain /\ [][NextMain]_vars

(***************************************************************************)
(* SpecLoad: one file on its way into memory.  distributeimage hands the   *)
(* --secret file to bmpfromfile as it is; a file of --dir goes through     *)
(* isvalidbmp in getvalidfilenames first and is loaded when that accepts   *)
(* it.  The file has the header fields lfile.bitmap, the pixel bytes       *)
(* lfile.data after the palette, and is lfile.length bytes long.           *)
(***************************************************************************)
WIDTH_OFFSET == 18
HEIGHT_OFFSET == 22

\* fread(ptr, size, nmemb, fp) on a file of the given length read from
\* position pos: the number of whole items it reads
fread(length, pos, size, nmemb) ==
    LET left == IF length > pos THEN length - pos ELSE 0
        items == left \div size
    IN  IF items < nmemb THEN items ELSE nmemb

\* xfread dies when fread returns less than one item
xfreaddies(length, pos, size, nmemb) == fread(length, pos, size, nmemb) < 1

\* the position and size of the fields readbmpheader and readdibheader
\* read, in order, and of the palette bmpfromfile reads after them
headerreads ==
    << <<0, 2>>, <<2, 4>>, <<6, 2>>, <<8, 2>>, <<10, 4>>,
       <<14, 4>>, <<18, 4>>, <<22, 4>>, <<26, 2>>, <<28, 2>>, <<30, 4>>,
       <<34, 4>>, <<38, 4>>, <<42, 4>>, <<46, 4>>, <<50, 4>>,
       <<BMP_HEADER_SIZE + DIB_HEADER_SIZE, PALETTE_SIZE>> >>

\* one of the reads of the headers and the palette dies
headerreaddies(length) ==
    \E r \in 1..Len(headerreads) :
        xfreaddies(length, headerreads[r][1], headerreads[r][2], 1)

\* the number of pixel bytes the last xfread of bmpfromfile gets
pixelsread(file) ==
    fread(file.length, PIXEL_ARRAY_OFFSET, 1, bmpimagesize(file.bitmap))

\* the buffer after that read: the bytes read, then what malloc left there
loadedpixels(file, junk) ==
    [i \in 1..bmpimagesize(file.bitmap) |->
        IF i <= pixelsread(file) THEN file.data[i] ELSE junk]

\* the files: 4x1 and 3x1 images with each of the magic numbers, header
\* sizes and depths, whole or cut short
LoadMagics == {"BM", "XX"}
LoadDibSizes == {DIB_HEADER_SIZE, 12}
LoadDepths == {BITS_PER_PIXEL, 24}
LoadDims == {<<4, 1>>, <<3, 1>>}
LoadLengths == {1, 20, 500, PIXEL_ARRAY_OFFSET, PIXEL_ARRAY_OFFSET + 2,
                PIXEL_ARRAY_OFFSET + 4}

LoadFiles ==
    { [ bitmap |-> [ newbitmap(d[1], d[2], 0, 0) EXCEPT
                       !.id = id, !.dibsize = ds, !.depth = dp ],
        data   |-> [i \in 1..(IF len > PIXEL_ARRAY_OFFSET
                              THEN len - PIXEL_ARRAY_OFFSET ELSE 0)
                      |-> 10 + i],
        length |-> len ] :
      id \in LoadMagics, ds \in LoadDibSizes, dp \in LoadDepths,
      d \in LoadDims, len \in LoadLengths }

InitLoad ==
    /\ lpc = "start"
    /\ lrole \in {"secret", "carrier"}
    /\ lfile \in LoadFiles
    /\ lk \in 2..MaxK
    /\ lbitmap = <<>>
    /\ NoFirst /\ NoMain /\ NoSolve /\ NoSize /\ NoPair /\ NoRecover

\* isvalidbmp on a file of --dir: isbmp reads the two bytes of the magic
\* number, kdivisiblesize the width and the height, each with xfread
IsValidBmp ==
    /\ lpc = "start" /\ lrole = "carrier"
    /\ lpc' = IF xfreaddies(lfile.length, 0, 2, 1) THEN "died"
              ELSE IF ~isbmp(lfile) THEN "skipped"
              ELSE IF \/ xfreaddies(lfile.length, WIDTH_OFFSET, 4, 1)
                      \/ xfreaddies(lfile.length, HEIGHT_OFFSET, 4, 1)
                   THEN "died"
              ELSE IF ~kdivisiblesize(lfile, lk) THEN "skipped"
              ELSE "valid"
    /\ UNCHANGED <<lrole, lfile, lbitmap, lk, firstvars,
                   mainvars, solvevars, sizevars, pairvars, recovervars>>

\* bmpfromfile
BmpFromFile ==
    /\ \/ lpc = "start" /\ lrole = "secret"
       \/ lpc = "valid" /\ lrole = "carrier"
    /\ \/ /\ headerreaddies(lfile.length) \/ pixelsread(lfile) < 1
          /\ lpc' = "died"
          /\ UNCHANGED lbitmap
       \/ /\ ~headerreaddies(lfile.length) /\ pixelsread(lfile) >= 1
          /\ \E junk \in JunkBytes :
                lbitmap' = [lfile.bitmap EXCEPT
                               !.imgpixels = loadedpixels(lfile, junk)]
          /\ lpc' = "loaded"
    /\ UNCHANGED <<lrole, lfile, lk, firstvars,
                   mainvars, solvevars, sizevars, pairvars, recovervars>>

NextLoad == IsValidBmp \/ BmpFromFile

SpecLoad == InitLoad /\ [][NextLoad]_vars

(***************************************************************************)
(* SpecSolve: recoverimage on a directory of k files that hold shadows of  *)
(* one block of k secret bytes.  getshadowfilenames selects the files,     *)
(* revealsecret sets up the matrix of the block and findcoefficients       *)
(* solves it.  The pixel of the shadow numbered x is the value at x of the *)
(* polynomial with the block's bytes as coefficients, modulo PRIME.        *)
(***************************************************************************)
MaxSolveK == 4

\* the shadow numbers of the files, and the blocks: byte i of a block is
\* base + step * i modulo PRIME
ShadowNumbers == {0, 1, 2, 3, 250}
BlockPatterns == {<<0, 0>>, <<250, 0>>, <<7, 100>>}

\* coef[i] + coef[i+1] * x + .. modulo PRIME
RECURSIVE polyvalue(_, _, _)
polyvalue(coef, i, x) ==
    IF i > Len(coef) THEN 0
    ELSE (coef[i] + x * polyvalue(coef, i + 1, x)) % PRIME

\* the shadows retrieveshadow hands to revealsecret: one pixel each
solveshadows(xs, coef) ==
    [j \in 1..Len(xs) |->
        [unused2 |-> xs[j], imgpixels |-> <<polyvalue(coef, 1, xs[j])>>]]

\* the matrix revealsecret hands to findcoefficients
solvematrix(xs, coef) ==
    [j \in 1..Len(xs) |-> matrixrow(solveshadows(xs, coef)[j], 0, Len(xs))]

\* revealsecret or findcoefficients computes a value that does not fit an int
solveoverflows(xs, coef) ==
    \/ \E j \in 1..Len(xs) : matrixrowoverflows(xs[j], Len(xs))
    \/ findcoefficientsoverflows(solvematrix(xs, coef), Len(xs))

\* the values of mat[i-1][j] the echelon phase looks up in modinv
RECURSIVE elimrowspivots(_, _, _, _)
elimrowspivots(mat, i, j, kk) ==
    IF i <= j THEN {}
    ELSE {mat[i][j + 1]} \cup elimrowspivots(elimrow(mat, i, j, kk), i - 1, j, kk)

RECURSIVE echelonpivots(_, _, _)
echelonpivots(mat, j, kk) ==
    IF j >= kk - 1 THEN {}
    ELSE elimrowspivots(mat, kk - 1, j, kk)
         \cup echelonpivots(elimrows(mat, kk - 1, j, kk), j + 1, kk)

\* the values of mat[i][i] the reduced phase looks up in modinv
RECURSIVE reducedpivots(_, _, _)
reducedpivots(mat, i, kk) ==
    IF i <= 0 THEN {}
    ELSE {mat[i + 1][i + 1]} \cup reducedpivots(reducerow(mat, i, kk), i - 1, kk)

\* every index findcoefficients uses into modinv
modinvindices(mat, kk) ==
    echelonpivots(mat, 0, kk) \cup reducedpivots(echelon(mat, 0, kk), kk - 1, kk)

InitSolve ==
    /\ vpc = "start"
    /\ vk \in 2..MaxSolveK
    /\ vfiles \in [1..vk -> ShadowNumbers]
    /\ \E pat \in BlockPatterns :
          vcoef = [i \in 1..vk |-> (pat[1] + pat[2] * (i - 1)) % PRIME]
    /\ vxs = <<>> /\ vout = <<>>
    /\ NoFirst /\ NoMain /\ NoLoad /\ NoSize /\ NoPair /\ NoRecover

\* getshadowfilenames: the first k files isvalidshadow accepts; a file
\* whose shadow number is 0 is not accepted, and getvalidfilenames dies
\* when fewer than k are
SelectShadows ==
    /\ vpc = "start"
    /\ LET sel == firstvalid([i \in 1..Len(vfiles) |-> vfiles[i] # 0], vk, 1)
       IN  IF Len(sel) < vk
           THEN vpc' = "died" /\ vxs' = vxs
           ELSE vpc' = "selected" /\ vxs' = [j \in 1..vk |-> vfiles[sel[j]]]
    /\ UNCHANGED <<vk, vfiles, vcoef, vout, firstvars,
                   mainvars, loadvars, sizevars, pairvars, recovervars>>

\* revealsecret on the block.  When a product or a difference does not fit
\* an int the block is what two's complement arithmetic gives, or any
\* other bytes.
SolveBlock ==
    /\ vpc = "selected"
    /\ IF solveoverflows(vxs, vcoef)
       THEN /\ vpc' = "overflowed"
            /\ vout' \in {revealedblock(solveshadows(vxs, vcoef), 0, vk)}
                         \cup {[j \in 1..vk |-> junk] : junk \in JunkBytes}
       ELSE /\ vpc' = "solved"
            /\ vout' = revealedblock(solveshadows(vxs, vcoef), 0, vk)
    /\ UNCHANGED <<vk, vfiles, vxs, vcoef, firstvars,
                   mainvars, loadvars, sizevars, pairvars, recovervars>>

NextSolve == SelectShadows \/ SolveBlock

SpecSolve == InitSolve /\ [][NextSolve]_vars

(***************************************************************************)
(* SpecSize: one call of newbitmap(width, height, seed).  A uint32_t is    *)
(* kept as the int with the same 32 bits: a value of 2^31 or more is the   *)
(* negative number 2^32 below it.  calculatepixelarraysize converts height *)
(* to uint32_t for its product, so for a negative height its result is a   *)
(* value of that kind.                                                     *)
(***************************************************************************)
SizeWidths == 1..8
SizeHeights == (-3..3) \ {0}

\* the fields of a Bitmap but its pixel buffer
headerof(bp) == [f \in (DOMAIN bp) \ {"imgpixels"} |-> bp[f]]

InitSize ==
    /\ zpc = "start"
    /\ zwidth \in SizeWidths
    /\ zheight \in SizeHeights
    /\ zbitmap = <<>> /\ zalloc = 0
    /\ NoFirst /\ NoMain /\ NoLoad /\ NoSolve /\ NoPair /\ NoRecover

\* newbitmap: xmalloc(pixelarraysize) gets the size as a size_t; a request
\* of 2^31 bytes or more is granted or ends the program in xmalloc
NewBitmap ==
    /\ zpc = "start"
    /\ \E sd \in {0, DEFAULT_SEED} :
          LET size == calculatepixelarraysize(zwidth, zheight)
          IN  \/ /\ zpc' = "created"
                 /\ zbitmap' = headerof(newbitmap(zwidth, zheight, sd, 0))
                 /\ zalloc' = size
              \/ /\ size < 0
                 /\ zpc' = "died"
                 /\ UNCHANGED <<zbitmap, zalloc>>
    /\ UNCHANGED <<zwidth, zheight, firstvars,
                   mainvars, loadvars, solvevars, pairvars, recovervars>>

NextSize == NewBitmap

SpecSize == InitSize /\ [][NextSize]_vars

(***************************************************************************)
(* SpecPair: one call of findclosestpair(x, &width, &height) as formshadows*)
(* makes it, with x = pixelarraysize / k.  The caller's width and height   *)
(* are not initialised: before the call they hold any value.               *)
(***************************************************************************)
MaxPairX == 40

InitPair ==
    /\ fpc = "start"
    /\ fx \in 1..MaxPairX
    /\ fin \in (0..MaxIndet) \X (0..MaxIndet)
    /\ fpair = <<>>
    /\ NoFirst /\ NoMain /\ NoLoad /\ NoSolve /\ NoSize /\ NoRecover

FindClosestPair ==
    /\ fpc = "start"
    /\ fpair' = findclosestpair(fx, fin[1], fin[2])
    /\ fpc' = "returned"
    /\ UNCHANGED <<fx, fin, firstvars,
                   mainvars, loadvars, solvevars, sizevars, recovervars>>

NextPair == FindClosestPair

SpecPair == InitPair /\ [][NextPair]_vars

(***************************************************************************)
(* SpecRecover: recoverimage(dir, filename, width, height, k) with the     *)
(* width, height and k of the command line, on a directory of k carrier    *)
(* files of one size that hold the shadow numbers 1 .. k.                  *)
(***************************************************************************)
RecoverWidths == {1, 3, 4, 5, 8}
RecoverHeights == 1..3
RecoverCarrierDims == {<<8, 1>>, <<16, 1>>, <<32, 1>>, <<64, 1>>, <<96, 1>>}

InitRecover ==
    /\ rpc = "start"
    /\ rargs \in [width : RecoverWidths, height : RecoverHeights, k : 2..MaxK]
    /\ \E d \in RecoverCarrierDims :
          rfiles = [j \in 1..rargs.k |->
                      LET b == newbitmaphelper(d[1], d[2], DEFAULT_SEED, j,
                                               d[1] * d[2], 0)
                      IN  bmptofile(
                            [b EXCEPT !.imgpixels =
                                [i \in 1..Len(b.imgpixels) |-> (170 + j * i) % 256]],
                            <<"shadow", j, ".bmp">>)]
    /\ rshadows = <<>> /\ rrecovered = <<>> /\ rfaults = {}
    /\ NoFirst /\ NoMain /\ NoLoad /\ NoSolve /\ NoSize /\ NoPair

\* getshadowfilenames(dir, k, width * height), which dies when fewer than
\* k files are valid shadows, then retrieveshadow for each file.  When
\* retrieveshadow reads past a carrier's buffer the run goes on with what
\* it read there, or aborts.
RetrieveAll ==
    /\ rpc = "start"
    /\ LET filepaths == getshadowfilenames(rfiles, rargs.k,
                                           rargs.width * rargs.height)
           overreads ==
               \E i \in 1..rargs.k :
                   retrieveshadowoverreads(bmpfromfile(rfiles[i]),
                       rargs.width, rargs.height, rargs.k)
       IN  IF Len(filepaths) < rargs.k
           THEN /\ rpc' = "died"
                /\ UNCHANGED <<rshadows, rfaults>>
           ELSE /\ \E junk \in JunkBytes :
                      rshadows' =
                          [i \in 1..rargs.k |->
                              retrieveshadow(bmpfromfile(rfiles[filepaths[i]]),
                                  rargs.width, rargs.height, rargs.k, junk)]
                /\ rfaults' = rfaults
                      \cup (IF overreads
                            THEN {"retrieveshadow reads past the carrier"}
                            ELSE {})
                /\ \/ rpc' = "retrieved"
                   \/ overreads /\ rpc' = "aborted"
    /\ UNCHANGED <<rargs, rfiles, rrecovered, firstvars,
                   mainvars, loadvars, solvevars, sizevars, pairvars>>

\* bmp = revealsecret(shadows, width, height, k).  When revealsecret writes
\* past the new bitmap's buffer the run goes on or aborts.
RevealAll ==
    /\ rpc = "retrieved"
    /\ LET overflows == revealsecretoverflows(rshadows, rargs.width,
                                              rargs.height, rargs.k)
       IN  /\ rfaults' = rfaults
                 \cup (IF overflows
                       THEN {"revealsecret writes past the secret"} ELSE {})
           /\ \E junk \in JunkBytes :
                 rrecovered' = revealsecret(rshadows, rargs.width,
                                            rargs.height, rargs.k, junk)
           /\ \/ rpc' = "revealed"
              \/ overflows /\ rpc' = "aborted"
    /\ UNCHANGED <<rargs, rfiles, rshadows, firstvars,
                   mainvars, loadvars, solvevars, sizevars, pairvars>>

NextRecover == RetrieveAll \/ RevealAll

SpecRecover == InitRecover /\ [][NextRecover]_vars

(***************************************************************************)
(* Properties.                                                             *)
(***************************************************************************)
\* bit number b (0 the least significant) of a byte
bitof(byte, b) == (byte \div Pow(2, b)) % 2

\* the bitwise exclusive or of two bytes
RECURSIVE bytexor(_, _)
bytexor(a, b) ==
    IF a = 0 /\ b = 0 THEN 0
    ELSE ((a + b) % 2) + 2 * bytexor(a \div 2, b \div 2)

\* the coefficients, lowest first and modulo PRIME, of the monic polynomial
\* that is 0 at every element of S
RECURSIVE vanishing(_)
vanishing(S) ==
    IF S = {} THEN <<1>>
    ELSE LET s == CHOOSE x \in S : TRUE
             q == vanishing(S \ {s})
         IN  [i \in 1..(Len(q) + 1) |->
                ((IF i > 1 THEN q[i - 1] ELSE 0)
                 - s * (IF i <= Len(q) THEN q[i] ELSE 0)) % PRIME]

\* the block that differs from block by a multiple of vanishing(S) and has
\* v as its last byte
candidate(block, S, v) ==
    LET L == vanishing(S)
        d == (v - block[Len(block)]) % PRIME
    IN  [i \in 1..Len(block) |-> (block[i] + d * L[i]) % PRIME]

\* the sets of kk - 1 shadow numbers among 1..nn
Views(kk, nn) == {S \in SUBSET (1..nn) : Cardinality(S) = kk - 1}

\* the value modulo PRIME at x of the polynomial whose coefficients, lowest
\* first, are the bytes i.. of coeff
RECURSIVE evaluate(_, _, _)
evaluate(coeff, i, x) ==
    IF i > Len(coeff) THEN 0
    ELSE (coeff[i] + x * evaluate(coeff, i + 1, x)) % PRIME

\* a pixel buffer with every byte above 250 replaced by 250
capped(pixels) ==
    [i \in 1..Len(pixels) |-> IF pixels[i] > 250 THEN 250 ELSE pixels[i]]

\* the pixel buffer of the secret file
SecretPixels == secret.bitmap.imgpixels

\* the secret's pixel count is a multiple of k and every carrier has eight
\* pixels for each block of the secret
WellSized ==
    /\ Len(SecretPixels) % k = 0
    /\ \A c \in 1..Len(dir) :
          Len(dir[c].bitmap.imgpixels) >= 8 * (Len(SecretPixels) \div k)

\* C1, as claimed: when the secret's pixel count is a multiple of k,
\* distribute followed by recover on any k of the files written, in any
\* order, gives back the secret's pixels with every byte above 250 replaced
\* by 250.
C1_RoundTrip ==
    (pc = "recovered" /\ WellSized)
        => recovered.imgpixels = capped(SecretPixels)

\* C5, as claimed: every file distribute writes is named shadow<s>.bmp for
\* a distinct s in 1..n, its bytes 6-7 hold the seed passed to distribute
\* and its bytes 8-9 hold s.
C5_HeaderFidelity ==
    /\ \A i \in 1..Len(written) :
          \E s \in 1..n :
             /\ written[i].name = <<"shadow", s, ".bmp">>
             /\ U16FromDisk(written[i].bytes6) = seed
             /\ U16FromDisk(written[i].bytes8) = s
    /\ \A i, j \in 1..Len(written) :
          i # j => written[i].name # written[j].name

\* C6, as claimed: when the secret's pixel count P is a multiple of k,
\* formshadows returns n shadows, and pixel j of shadow s is the value
\* modulo 251 at s of the polynomial whose coefficients are the bytes
\* j*k .. j*k+k-1 of the secret, for every j below P/k and s in 1..n.
C6_ShadowFormation ==
    (pc \in {"formed", "distributed", "retrieved", "recovered"}
       /\ Len(bmp.imgpixels) % k = 0)
        => /\ Len(shadows) = n
           /\ \A s \in 1..n :
              \A j \in 0..((Len(bmp.imgpixels) \div k) - 1) :
                 /\ j + 1 \in DOMAIN shadows[s].imgpixels
                 /\ shadows[s].imgpixels[j + 1] =
                        evaluate(SubSeq(bmp.imgpixels, j * k + 1, j * k + k), 1, s)

\* C10, as claimed: after truncategrayscale the secret is the loaded one
\* with every byte above 250 replaced by 250 and nothing else changed, and
\* every coefficient formshadows hands to generatepixel is in 0..250.
C10_Truncation ==
    /\ pc \notin {"start", "loaded", "died"}
          => bmp = [bmpfromfile(secret) EXCEPT !.imgpixels = capped(SecretPixels)]
    /\ coeffs \subseteq 0..250

\* C2, as claimed: two blocks of secret bytes cannot be told apart from any
\* k-1 of their shadows: on every k-1 shadow numbers, the shadow pixels of
\* any two blocks are the same.
C2_ThresholdSecrecy ==
    cpc = "formed" =>
        \A S \in Views(ck, cn) : \A s \in S : viewA[s] = viewB[s]

\* C2, amended: k-1 shadows narrow a block down to 251 candidates without
\* determining it.  For every k-1 shadow numbers S and every v in 0..250,
\* the block that differs from the secret block by a multiple of the
\* polynomial vanishing on S and has last byte v is a block of bytes in
\* 0..250 with the same k-1 shadow pixels; and a block with the same k-1
\* shadow pixels is one of these candidates.
C2_CandidatesRemain ==
    cpc = "formed" =>
        \A S \in Views(ck, cn) :
            /\ \A v \in 0..(PRIME - 1) :
                  LET c == candidate(blockA, S, v)
                  IN  /\ c[ck] = v
                      /\ \A i \in 1..ck : c[i] \in 0..250
                      /\ \A s \in S : generatepixel(c, ck - 1, s) = viewA[s]
            /\ (\A s \in S : viewB[s] = viewA[s])
                  => blockB = candidate(blockA, S, blockB[ck])

\* two different blocks that k-1 shadows do not tell apart, and two that
\* they do
C2_Witness ==
    /\ cpc = "formed"
    /\ blockA # blockB
    /\ \E S \in Views(ck, cn) : \A s \in S : viewA[s] = viewB[s]
    /\ \E S \in Views(ck, cn) : \E s \in S : viewA[s] # viewB[s]

\* C3: unpermutepixels, run with the same seed on the result of
\* permutepixels, gives the buffer permutepixels was given.
C3_PermutationInverse ==
    ppc = "unpermuted" => buffer = original

\* C4: after hideshadow, every byte of the carrier's pixel array differs
\* from the byte it was in at most the least significant bit: the exclusive
\* or of the two is 0 or 1.
C4_LsbIsolation ==
    spc \in {"hidden", "retrieved"} =>
        /\ Len(hidden.bitmap.imgpixels) = Len(carrier.imgpixels)
        /\ \A i \in 1..Len(carrier.imgpixels) :
              bytexor(hidden.bitmap.imgpixels[i], carrier.imgpixels[i]) \in {0, 1}

\* a carrier in which hideshadow flipped a bit, and which is longer than
\* the bits of the shadow
C4_Witness ==
    /\ spc = "hidden"
    /\ Len(carrier.imgpixels) > 8 * Len(shadow.imgpixels)
    /\ \E i \in 1..Len(carrier.imgpixels) :
          bytexor(hidden.bitmap.imgpixels[i], carrier.imgpixels[i]) = 1

\* C7, as claimed: when the carrier has at least 8*M pixel bytes, what
\* retrieveshadow reads back from the file hideshadow wrote has the M pixel
\* bytes of the shadow hidden, its key and its shadow number.
C7_ExtractionInvertsEmbedding ==
    (spc = "retrieved" /\ Len(carrier.imgpixels) >= 8 * Len(shadow.imgpixels)) =>
        /\ Len(readback.imgpixels) >= Len(shadow.imgpixels)
        /\ SubSeq(readback.imgpixels, 1, Len(shadow.imgpixels)) = shadow.imgpixels
        /\ readback.unused1 = shadow.unused1
        /\ readback.unused2 = shadow.unused2

\* C8: hideshadow sets the least significant bit of carrier byte 8*i + j
\* (of those the carrier has) to bit 7-j of shadow byte i and leaves the
\* other seven bits of the carrier byte alone; 0b10110100 hidden in eight 0x00 bytes gives 1,0,1,1,0,1,0,0.
C8_EmbeddingBitOrder ==
    spc \in {"hidden", "retrieved"} =>
        /\ \A i \in 0..(Len(shadow.imgpixels) - 1) : \A j \in 0..7 :
              8 * i + j + 1 <= Len(carrier.imgpixels) =>
                 LET new == hidden.bitmap.imgpixels[8 * i + j + 1]
                     old == carrier.imgpixels[8 * i + j + 1]
                 IN  /\ new % 2 = bitof(shadow.imgpixels[i + 1], 7 - j)
                     /\ new \div 2 = old \div 2
        /\ (shadow.imgpixels = <<180>> /\ Len(carrier.imgpixels) >= 8
               /\ SubSeq(carrier.imgpixels, 1, 8) = [i \in 1..8 |-> 0])
              => SubSeq(hidden.bitmap.imgpixels, 1, 8) = <<1, 0, 1, 1, 0, 1, 0, 0>>

\* 0b10110100 hidden in eight 0x00 bytes
C8_Witness ==
    /\ spc = "hidden"
    /\ shadow.imgpixels = <<180>>
    /\ carrier.imgpixels = [i \in 1..8 |-> 0]
    /\ hidden.bitmap.imgpixels = <<1, 0, 1, 1, 0, 1, 0, 0>>

\* C9: modinv[0] = 0, a * modinv[a] = 1 modulo 251 for every a in 1..250,
\* and modinv[126] = 2, modinv[84] = 3, modinv[250] = 250; the table has
\* 251 entries.
C9_FieldInverseTable ==
    /\ Len(modinvtable) = 251
    /\ qa = 0 => qinv = 0
    /\ qa \in 1..250 => (qa * qinv) % 251 = 1
    /\ qa = 126 => qinv = 2
    /\ qa = 84 => qinv = 3
    /\ qa = 250 => qinv = 250

\* the lookup of modinv[126]
C9_Witness == qa = 126 /\ qinv = 2

\* the k and n main works with: k as converted, n from -n or else the
\* number of regular files in --dir
EffectiveK == IF margs.kflag THEN ToUint16(margs.k) ELSE 0
EffectiveN == IF margs.nflag THEN ToUint16(margs.n) ELSE ToUint16(mfiles)

\* C11, as claimed: when k < 2, k > n or n > 250 main ends with a fatal
\* error and calls neither distributeimage nor recoverimage.
C11_ParameterValidation ==
    (mpc \notin {"idle", "start", "parsed"}
       /\ (EffectiveK < 2 \/ EffectiveK > EffectiveN \/ EffectiveN > 250))
        => mpc # "called"

\* C12, as claimed: -d with --secret and -k, 2 <= k <= n, and neither -w
\* nor -h gets distributeimage called; only a recover invocation that
\* lacks -w or -h is rejected for its width and height.
C12_DimensionsForRecoverOnly ==
    /\ (mpc \notin {"idle", "start", "parsed"}
          /\ margs.dflag /\ ~margs.rflag /\ margs.secretflag /\ margs.kflag
          /\ ~margs.wflag /\ ~margs.hflag
          /\ 2 <= EffectiveK /\ EffectiveK <= EffectiveN /\ EffectiveN <= 250)
           => (mpc = "called" /\ mcall.fn = "distributeimage")
    /\ mpc = "died: width and height" => margs.rflag


\* the file is whole: it holds the headers, the palette and every byte of
\* the pixel array its header announces
wholefile(file) ==
    file.length >= PIXEL_ARRAY_OFFSET + bmpimagesize(file.bitmap)

\* C13: a file bmpfromfile has loaded, the secret or a carrier, has the
\* magic number "BM", a DIB header of 40 bytes and a depth of 8 bits; any
\* other file has ended the program or has not been loaded.
C13_FormatRejection ==
    lpc = "loaded" =>
        /\ lfile.bitmap.id = "BM"
        /\ lfile.bitmap.dibsize = DIB_HEADER_SIZE
        /\ lfile.bitmap.depth = BITS_PER_PIXEL

\* C14: a file that ends before its headers, its palette or its pixel
\* array are complete ends the program: no such file is ever loaded.
C14_ShortReadsFatal ==
    (lpc \notin {"idle", "start", "valid"} /\ ~wholefile(lfile))
        => lpc \in {"died", "skipped"}


\* the number of bytes of the secret's pixel array
SecretSize == bmpimagesize(secret.bitmap)

\* C15: once distributeimage has its carriers, each of the n carriers it
\* selected has at least 8 * (P / k) bytes of pixels, P being the size of
\* the secret's pixel array; with a carrier smaller than that the run has
\* died in getbmpfilenames.
C15_CarrierCapacity ==
    pc \notin {"idle", "start", "died"} =>
        \A i \in 1..n :
            Len(dir[getbmpfilenames(dir, k, n)[i]].bitmap.imgpixels)
                >= 8 * (SecretSize \div k)

\* C16: a secret whose pixel array size is not a multiple of k ends the
\* run with a fatal error, and formshadows never reads a coefficient past
\* the end of the secret's pixel array.
C16_DivisibilityPrecondition ==
    /\ (pc \notin {"idle", "start"} /\ SecretSize % k # 0) => pc = "died"
    /\ "formshadows reads past the secret" \notin faults


\* the entries of a sequence are pairwise distinct
distinct(xs) == \A i, j \in 1..Len(xs) : i # j => xs[i] # xs[j]

\* C17: when the shadow numbers of the k files given to recoverimage are
\* not pairwise distinct and non-zero, the run has ended with a fatal
\* error: it has not gone on to the solver.
C17_SingularSystemFatal ==
    (vpc \notin {"idle", "start"}
       /\ ~(distinct(vfiles) /\ \A i \in 1..Len(vfiles) : vfiles[i] # 0))
        => vpc = "died"

\* C19: for k pairwise distinct shadow numbers in 1..250, in any order, and
\* any block of k bytes in 0..250, the solver gives the block back, and
\* no pivot the echelon phase divides by is 0.
C19_SolverCorrectness ==
    (vpc \in {"solved", "overflowed"} /\ distinct(vxs)) =>
        /\ vout = vcoef
        /\ 0 \notin echelonpivots(solvematrix(vxs, vcoef), 0, vk)

\* without a value that leaves the int range the solver gives the block back
SolverExactWithoutOverflow ==
    (vpc = "solved" /\ distinct(vxs)) =>
        /\ vout = vcoef
        /\ 0 \notin echelonpivots(solvematrix(vxs, vcoef), 0, vk)


\* the size of the pixel array of a width x height image: rows of width
\* bytes padded to a multiple of 4, |height| of them
paddedsize(width, height) ==
    ((BITS_PER_PIXEL * width + 31) \div 32) * 4 * absof(height)

\* C18: a bitmap newbitmap has created for a width >= 1 and a height other
\* than 0, negative or not, has the pixel array size of |height| padded
\* rows, a pixel buffer of that many bytes, data offset 1078 and file size
\* 1078 plus the pixel array size.
C18_BitmapSizeInvariant ==
    zpc = "created" =>
        /\ zbitmap.pixelarraysize = paddedsize(zwidth, zheight)
        /\ zalloc = paddedsize(zwidth, zheight)
        /\ zbitmap.offset = PIXEL_ARRAY_OFFSET
        /\ zbitmap.size = PIXEL_ARRAY_OFFSET + paddedsize(zwidth, zheight)

\* for a positive height the sizes are those of the padded rows
SizesOfPositiveHeights ==
    (zpc = "created" /\ zheight > 0) =>
        /\ zbitmap.pixelarraysize = paddedsize(zwidth, zheight)
        /\ zalloc = paddedsize(zwidth, zheight)
        /\ zbitmap.offset = PIXEL_ARRAY_OFFSET
        /\ zbitmap.size = PIXEL_ARRAY_OFFSET + paddedsize(zwidth, zheight)


\* the largest divisor of x that is at most sqrt(x)
largestdivisor(x) ==
    CHOOSE d \in 1..x :
        /\ x % d = 0 /\ d * d <= x
        /\ \A e \in 1..x : (x % e = 0 /\ e * e <= x) => e <= d

\* C20: for every x >= 1 findclosestpair assigns width and height, with
\* width * height = x and width the largest divisor of x that is at most
\* sqrt(x).
C20_ShadowDimensions ==
    fpc = "returned" =>
        /\ fpair.assigned
        /\ fpair.width * fpair.height = fx
        /\ fpair.width = largestdivisor(fx)

\* when findclosestpair assigns, it assigns that pair
AssignedPairIsClosest ==
    (fpc = "returned" /\ fpair.assigned) =>
        /\ fpair.width * fpair.height = fx
        /\ fpair.width = largestdivisor(fx)


\* b holds the entries of a in some order
ispermutation(a, b) ==
    /\ Len(a) = Len(b)
    /\ \E o \in Orders(a) : \A i \in 1..Len(a) : b[i] = a[o[i]]

\* one of the calls randint(i) of permutepixels, for i = N-1 down to 2,
\* returns 0
drawszero(len, draws) ==
    \E t \in 1..(len - 2) : randint(len - t, draws[t]) = 0

\* C21 as stated: permutepixels gives a permutation of the input bytes and
\* the byte at index 0 is the same before and after the call, whatever
\* randint returns.
C21_IndexZeroFixed ==
    ppc = "permuted" =>
        /\ ispermutation(original, buffer)
        /\ buffer[1] = original[1]

\* C21 amended: for a buffer of N >= 1 distinct bytes permutepixels gives a
\* permutation of the input bytes, and the byte at index 0 is the same
\* before and after the call exactly when no randint(i) returned 0; a
\* buffer of one or two bytes is left as it is.
C21_PermutationMovesIndexZero ==
    ppc = "permuted" =>
        /\ ispermutation(original, buffer)
        /\ (buffer[1] = original[1]) <=> ~drawszero(Len(original), stream)
        /\ Len(original) <= 2 => buffer = original

\* permutepixels has moved the byte at index 0
C21_Witness ==
    /\ ppc = "permuted"
    /\ Len(original) >= 3
    /\ buffer[1] # original[1]


\* C22: for k distinct shadow numbers in 1..250, no value revealsecret and
\* findcoefficients compute from the matrix leaves the range of an int,
\* and every index used into modinv is in 0..250.
C22_NoIntegerOverflow ==
    (vpc \in {"solved", "overflowed"} /\ distinct(vxs)) =>
        /\ ~solveoverflows(vxs, vcoef)
        /\ modinvindices(solvematrix(vxs, vcoef), vk) \subseteq 0..(PRIME - 1)

\* the indices into modinv are in 0..250, with or without an overflow
ModinvIndicesInRange ==
    vpc \in {"solved", "overflowed"} =>
        modinvindices(solvematrix(vxs, vcoef), vk) \subseteq 0..(PRIME - 1)


\* C23: for the width, height and k of the command line and carriers that
\* isvalidshadow accepts, retrieveshadow reads no carrier byte past the
\* carrier's pixel array and revealsecret writes no byte past the pixel
\* array of the recovered bitmap.
C23_RecoverInsideBuffers ==
    /\ "retrieveshadow reads past the carrier" \notin rfaults
    /\ "revealsecret writes past the secret" \notin rfaults
====
